---------------------------- MODULE Spec2Model ----------------------------
(***************************************************************************)
(* Inventory application: the item and category request handlers, the     *)
(* form validation chains they run, and the two document collections      *)
(* they read and write.                                                    *)
(*                                                                         *)
(* A text value is a sequence of one-character strings.  A request body   *)
(* field keeps the raw text the client sent; the validation chain trims   *)
(* and escapes it as express-validator does.                               *)
(***************************************************************************)
EXTENDS Integers, Sequences, FiniteSets, TLC

VARIABLES
    items,      \* the item collection: ObjectId -> stored Item document
    cats,       \* the category collection: ObjectId -> stored Category document
    nextId,     \* the next ObjectId a document constructor hands out
    pend,       \* handlers suspended at an await between two store calls
    last,       \* the handler step executed last, with the response calls it made
    form        \* the item form a validation chain is run on, and its result

vars == <<items, cats, nextId, pend, last, form>>

-----------------------------------------------------------------------------
(* Bounds of the model. *)

\* ObjectIds 1..MaxId can be handed out by the document constructors.
MaxId == 2
\* Number of handlers that may be suspended between two store calls at once.
MaxInflight == 1
\* Number of category create submits that may overlap in the specification
\* of overlapping creates.
MaxOverlap == 2
\* Longest raw price text drawn in the validation specification.
MaxPriceLen == 3
\* Longest raw stock text drawn in the validation specification.
MaxStockLen == 3

-----------------------------------------------------------------------------
(* Text helpers. *)

Digits == {"0", "1", "2", "3", "4", "5", "6", "7", "8", "9"}

Whitespace == {" "}

RECURSIVE TrimLeft(_)
TrimLeft(s) ==
    IF s # <<>> /\ Head(s) \in Whitespace THEN TrimLeft(Tail(s)) ELSE s

RECURSIVE TrimRight(_)
TrimRight(s) ==
    IF s # <<>> /\ s[Len(s)] \in Whitespace
    THEN TrimRight(SubSeq(s, 1, Len(s) - 1))
    ELSE s

\* .trim(): whitespace removed from both ends.
Trim(s) == TrimRight(TrimLeft(s))

\* The grave accent character (a string literal cannot hold it).
Backtick == "GRAVE"

\* .escape(): the HTML-unsafe characters replaced by their entities.
EscapeChar(c) ==
    CASE c = "&" -> <<"&", "a", "m", "p", ";">>
      [] c = "<" -> <<"&", "l", "t", ";">>
      [] c = ">" -> <<"&", "g", "t", ";">>
      [] c = "\"" -> <<"&", "q", "u", "o", "t", ";">>
      [] c = "'" -> <<"&", "#", "x", "2", "7", ";">>
      [] c = "/" -> <<"&", "#", "x", "2", "F", ";">>
      [] c = "\\" -> <<"&", "#", "x", "5", "C", ";">>
      [] c = Backtick -> <<"&", "#", "9", "6", ";">>
      [] OTHER -> <<c>>

RECURSIVE Escape(_)
Escape(s) == IF s = <<>> THEN <<>> ELSE EscapeChar(Head(s)) \o Escape(Tail(s))

AllDigits(s) == \A i \in 1..Len(s) : s[i] \in Digits

\* .isLength({ min }).
IsLength(s, min) == Len(s) >= min

\* The regular expression \$\d+(?:\.\d+)? matched against the whole of t.
PricePattern(t) ==
    /\ Len(t) >= 2
    /\ t[1] = "$"
    /\ \/ AllDigits(SubSeq(t, 2, Len(t)))
       \/ \E k \in 3..(Len(t) - 1) :
            /\ t[k] = "."
            /\ AllDigits(SubSeq(t, 2, k - 1))
            /\ AllDigits(SubSeq(t, k + 1, Len(t)))

\* .matches(pattern): RegExp.test, which searches s for a match; the pattern
\* carries no ^ or $ anchor.
Matches(s) ==
    \E i \in 1..Len(s) : \E j \in i..Len(s) : PricePattern(SubSeq(s, i, j))

\* .isNumeric() with its default options: /^[+-]?([0-9]*[.])?[0-9]+$/.
IsNumeric(s) ==
    LET t == IF s # <<>> /\ Head(s) \in {"+", "-"} THEN Tail(s) ELSE s
    IN  /\ t # <<>>
        /\ \/ AllDigits(t)
           \/ \E k \in 1..(Len(t) - 1) :
                /\ t[k] = "."
                /\ AllDigits(SubSeq(t, 1, k - 1))
                /\ AllDigits(SubSeq(t, k + 1, Len(t)))

-----------------------------------------------------------------------------
(* The validation chains.  Every validator of every field runs; each one   *)
(* that fails adds its message, in field order.                            *)

NameMsg == "Name must not be empty."
DescriptionMsg == "Description must have at least 3 characters."
PriceEmptyMsg == "Price must not be empty."
PriceFormatMsg == "Price must match the format $9.99"
StockEmptyMsg == "Stock must not be empty."
StockNumericMsg == "Stock can only contain numbers"
CategoryNameMsg == "Category name must contain at least 3 characters"

Err(failed, msg) == IF failed THEN <<msg>> ELSE <<>>

\* body('price'): trim, isLength min 1, matches, escape.
PriceErrors(raw) ==
    Err(~IsLength(Trim(raw), 1), PriceEmptyMsg)
        \o Err(~Matches(Trim(raw)), PriceFormatMsg)

\* body('stock'): trim, isLength min 1, isNumeric, escape.
StockErrors(raw) ==
    Err(~IsLength(Trim(raw), 1), StockEmptyMsg)
        \o Err(~IsNumeric(Trim(raw)), StockNumericMsg)

\* The item form's chain: name, description, price, stock.
ItemErrors(body) ==
    Err(~IsLength(Trim(body.name), 1), NameMsg)
        \o Err(~IsLength(Trim(body.description), 3), DescriptionMsg)
        \o PriceErrors(body.price)
        \o StockErrors(body.stock)

\* The category form's chain: name.
CategoryErrors(body) == Err(~IsLength(Trim(body.name), 3), CategoryNameMsg)

\* The value a chain leaves in req.body: trimmed, then escaped.
Sanitize(raw) == Escape(Trim(raw))

-----------------------------------------------------------------------------
(* Documents and the two collections. *)

\* A well-formed ObjectId that no document constructor of this process hands out.
UnissuedId == MaxId + 1
\* The id field of a response call that names no document.
NoId == MaxId + 2

\* The ids a client can put in a URL or a form: those handed out so far, and
\* a well-formed one that names nothing.
RequestIds == (1..(nextId - 1)) \cup {UnissuedId}

DigitVal(c) ==
    CASE c = "0" -> 0 [] c = "1" -> 1 [] c = "2" -> 2 [] c = "3" -> 3
      [] c = "4" -> 4 [] c = "5" -> 5 [] c = "6" -> 6 [] c = "7" -> 7
      [] c = "8" -> 8 [] c = "9" -> 9

RECURSIVE DigitsValue(_)
DigitsValue(s) ==
    IF s = <<>> THEN 0
    ELSE 10 * DigitsValue(SubSeq(s, 1, Len(s) - 1)) + DigitVal(s[Len(s)])

RECURSIVE Pow10(_)
Pow10(n) == IF n = 0 THEN 1 ELSE 10 * Pow10(n - 1)

RECURSIVE Reduce(_, _)
Reduce(num, den) ==
    IF den > 1 /\ num % 10 = 0 THEN Reduce(num \div 10, den \div 10)
    ELSE [num |-> num, den |-> den]

\* stock: { type: Number }: the schema casts the text to a number, kept here
\* as the fraction num / den with den a power of ten.
CastNumber(s) ==
    LET neg == s # <<>> /\ Head(s) = "-"
        t == IF s # <<>> /\ Head(s) \in {"+", "-"} THEN Tail(s) ELSE s
        dots == {k \in 1..Len(t) : t[k] = "."}
        k == IF dots = {} THEN Len(t) + 1 ELSE CHOOSE d \in dots : TRUE
        int == SubSeq(t, 1, k - 1)
        frac == SubSeq(t, k + 1, Len(t))
        r == Reduce(DigitsValue(int \o frac), Pow10(Len(frac)))
    IN  [num |-> IF neg THEN 0 - r.num ELSE r.num, den |-> r.den]

\* The first middleware of the item forms: req.body.category made an array.
ToArray(category) ==
    CASE category.kind = "absent" -> <<>>
      [] category.kind = "scalar" -> <<category.ids[1]>>
      [] category.kind = "array" -> category.ids

\* new Item({ name, description, price, stock, category }) from the sanitized
\* body, as the schema casts it.  The category values are well-formed
\* ObjectIds, which escape leaves as they are, and every text of the model
\* is shorter than the schema's maxLength.
ItemDoc(body) ==
    [name |-> Sanitize(body.name),
     description |-> Sanitize(body.description),
     price |-> Sanitize(body.price),
     stock |-> CastNumber(Sanitize(body.stock)),
     category |-> ToArray(body.category)]

\* new Category({ name }) from the sanitized body.
CategoryDoc(body) == [name |-> Sanitize(body.name)]

UpperCase ==
    <<"A", "B", "C", "D", "E", "F", "G", "H", "I", "J", "K", "L", "M",
      "N", "O", "P", "Q", "R", "S", "T", "U", "V", "W", "X", "Y", "Z">>
LowerCase ==
    <<"a", "b", "c", "d", "e", "f", "g", "h", "i", "j", "k", "l", "m",
      "n", "o", "p", "q", "r", "s", "t", "u", "v", "w", "x", "y", "z">>

LowerChar(c) ==
    IF \E i \in 1..Len(UpperCase) : UpperCase[i] = c
    THEN LowerCase[CHOOSE i \in 1..Len(UpperCase) : UpperCase[i] = c]
    ELSE c

\* Variant: a comparison that tells letter case apart, as findOne without
\* the collation would.
CollationKeyCaseSensitive(s) == s

\* The key the collation { locale: 'en', strength: 2 } compares: letter case
\* is ignored.
CollationKey(s) == [i \in 1..Len(s) |-> LowerChar(s[i])]

\* Category.findOne({ name }).collation(...): the ids of the matching documents.
FindOneByName(coll, name) ==
    {c \in DOMAIN coll : CollationKey(coll[c].name) = CollationKey(name)}

\* Item.find({ category: id }): the items whose category array holds id.
FindItemsByCategory(coll, id) ==
    {i \in DOMAIN coll : \E k \in 1..Len(coll[i].category) : coll[i].category[k] = id}

\* doc.save() of a new document.
Save(coll, id, doc) == coll @@ (id :> doc)

\* Variant: the document is stored again under another id, as an update
\* built without the old _id would.
FindByIdAndUpdateNewId(coll, id, doc) ==
    IF id \in DOMAIN coll
    THEN [d \in (DOMAIN coll \ {id}) \cup {UnissuedId} |->
            IF d = UnissuedId THEN doc ELSE coll[d]]
    ELSE coll

\* Model.findByIdAndUpdate(id, doc, {}): the fields of the document are set
\* when it exists; nothing is inserted when it does not.
FindByIdAndUpdate(coll, id, doc) ==
    IF id \in DOMAIN coll THEN [coll EXCEPT ![id] = doc] ELSE coll

\* Model.findByIdAndDelete(id): a no-op when no document has the id.
FindByIdAndDelete(coll, id) == [d \in DOMAIN coll \ {id} |-> coll[d]]

-----------------------------------------------------------------------------
(* Responses. *)

Redirect(path, id) == [kind |-> "redirect", target |-> path, id |-> id]
Render(view) == [kind |-> "render", target |-> view, id |-> NoId]
\* next(err): the error handed to the fault handler.
NextErr(err) == [kind |-> "next", target |-> err, id |-> NoId]

ItemUrl == "/inventory/item/"
CategoryUrl == "/inventory/category/"
ItemListUrl == "/inventory/items"
CategoryListUrl == "/inventory/categories"

\* A handler suspended between its read and its write: the write it will
\* issue (op, id, name), the URL id of its request, and whether an item
\* referenced the document named in its body when it read the store.
Suspended(op, id, urlid, name, referenced) ==
    [op |-> op, id |-> id, urlid |-> urlid, name |-> name,
     referenced |-> referenced]
Idle == Suspended("idle", NoId, NoId, <<>>, FALSE)

\* The record of one handler step: the handler, the id of its document, the
\* form received, the validation errors, the response calls made, and
\* whether the handler has run to its end.
Step(op, id, body, errors, calls, settled) ==
    [op |-> op, id |-> id, body |-> body, errors |-> errors,
     calls |-> calls, settled |-> settled]

\* req.body of a request that carries no form.
NoBody == [form |-> "none"]

-----------------------------------------------------------------------------
(* The requests drawn by the handlers' specification. *)

ValidItemFields ==
    { [name |-> <<"W">>, description |-> <<"a", "b", "c">>,
       price |-> <<"$", "9">>, stock |-> <<"4", "2">>],
      [name |-> <<" ", "<", "X">>, description |-> <<"d", "e", "f", " ">>,
       price |-> <<"$", "9", ".", "5">>, stock |-> <<"0", "7">>] }

InvalidItemFields ==
    { [name |-> <<" ">>, description |-> <<"a", "b", "c">>,
       price |-> <<"$", "9">>, stock |-> <<"4", "2">>],
      [name |-> <<"W">>, description |-> <<"a", "b", "c">>,
       price |-> <<"9", ".", "9", "9">>, stock |-> <<"x">>] }

Absent == [kind |-> "absent", ids |-> <<>>]

\* The category field of an item form: absent, one value (any id), or two
\* values, the first a stored category's checkbox.
CategoryInputs(ids) ==
    {Absent}
        \cup {[kind |-> "scalar", ids |-> <<c>>] : c \in ids}
        \cup {[kind |-> "array", ids |-> <<p[1], p[2]>>] :
                p \in {q \in (DOMAIN cats) \X ids : q[1] < q[2]}}

ItemBody(f, c) ==
    [form |-> "item", name |-> f.name, description |-> f.description,
     price |-> f.price, stock |-> f.stock, category |-> c]

ItemBodies ==
    {ItemBody(f, c) : f \in ValidItemFields, c \in CategoryInputs(RequestIds)}
        \cup {ItemBody(f, c) : f \in InvalidItemFields,
                c \in {Absent, [kind |-> "scalar", ids |-> <<UnissuedId>>]}}

CategoryBody(n) == [form |-> "category", name |-> n]

CategoryBodies ==
    { CategoryBody(<<"T", "o", "y">>), CategoryBody(<<" ", "t", "o", "y">>),
      CategoryBody(<<"a", "b", " ">>) }

FreeSlots == {s \in DOMAIN pend : pend[s].op = "idle"}
\* The slot a newly suspended handler takes.
FreeSlot == CHOOSE s \in FreeSlots : \A t \in FreeSlots : s <= t

-----------------------------------------------------------------------------
(* Item handlers. *)

\* Variant: the item is saved before the validation result is looked at.
ItemCreatePOSTSavesFirst(body) ==
    /\ nextId <= MaxId
    /\ nextId' = nextId + 1
    /\ items' = Save(items, nextId, ItemDoc(body))
    /\ IF ItemErrors(body) # <<>>
       THEN last' = Step("itemCreate", nextId, body, ItemErrors(body),
                         <<Render("item_form")>>, TRUE)
       ELSE last' = Step("itemCreate", nextId, body, <<>>,
                         <<Redirect(ItemUrl, nextId)>>, TRUE)
    /\ UNCHANGED <<cats, pend, form>>

\* POST /item/create.
ItemCreatePOST(body) ==
    /\ nextId <= MaxId
    /\ nextId' = nextId + 1
    /\ IF ItemErrors(body) # <<>>
       THEN /\ items' = items
            /\ last' = Step("itemCreate", nextId, body, ItemErrors(body),
                            <<Render("item_form")>>, TRUE)
       ELSE /\ items' = Save(items, nextId, ItemDoc(body))
            /\ last' = Step("itemCreate", nextId, body, <<>>,
                            <<Redirect(ItemUrl, nextId)>>, TRUE)
    /\ UNCHANGED <<cats, pend, form>>

\* GET /item/:id/delete.  The redirect of the missing case is not followed
\* by a return: the render call after it runs too.
ItemDeleteGET(id) ==
    /\ last' = Step("itemDeleteGET", id, NoBody, <<>>,
                    IF id \notin DOMAIN items
                    THEN <<Redirect(ItemListUrl, NoId), Render("item_delete")>>
                    ELSE <<Render("item_delete")>>,
                    TRUE)
    /\ UNCHANGED <<items, cats, nextId, pend, form>>

\* POST /item/:id/delete: the id comes from the body; the URL id is not read.
ItemDeletePOST(itemid) ==
    /\ items' = FindByIdAndDelete(items, itemid)
    /\ last' = Step("itemDelete", itemid, NoBody, <<>>,
                    <<Redirect(ItemListUrl, NoId)>>, TRUE)
    /\ UNCHANGED <<cats, nextId, pend, form>>

\* POST /item/:id/update.  findByIdAndUpdate resolves to null when no item
\* has the id; reading .url of it throws, and asyncHandler hands the error
\* to next.
ItemUpdatePOST(id, body) ==
    /\ IF ItemErrors(body) # <<>>
       THEN /\ items' = items
            /\ last' = Step("itemUpdate", id, body, ItemErrors(body),
                            <<Render("item_form")>>, TRUE)
       ELSE /\ items' = FindByIdAndUpdate(items, id, ItemDoc(body))
            /\ last' = Step("itemUpdate", id, body, <<>>,
                            IF id \in DOMAIN items
                            THEN <<Redirect(ItemUrl, id)>>
                            ELSE <<NextErr("TypeError")>>,
                            TRUE)
    /\ UNCHANGED <<cats, nextId, pend, form>>

-----------------------------------------------------------------------------
(* Category handlers. *)

\* POST /category/create, up to the await of the duplicate check: the form
\* is re-rendered, or the client is sent to the category found, or the
\* handler is suspended with its new document still to be saved.
CategoryCreatePOST(body) ==
    /\ nextId <= MaxId
    /\ nextId' = nextId + 1
    /\ UNCHANGED <<items, cats, form>>
    /\ IF CategoryErrors(body) # <<>>
       THEN /\ pend' = pend
            /\ last' = Step("categoryCreate", nextId, body, CategoryErrors(body),
                            <<Render("category_form")>>, TRUE)
       ELSE IF FindOneByName(cats, Sanitize(body.name)) # {}
       THEN /\ pend' = pend
            /\ \E c \in FindOneByName(cats, Sanitize(body.name)) :
                 last' = Step("categoryCreate", nextId, body, <<>>,
                              <<Redirect(CategoryUrl, c)>>, TRUE)
       ELSE /\ FreeSlots # {}
            /\ pend' = [pend EXCEPT ![FreeSlot] =
                          Suspended("save", nextId, NoId,
                                    CategoryDoc(body).name, FALSE)]
            /\ last' = Step("categoryCreate", nextId, body, <<>>, <<>>, FALSE)

\* Variant: the save is a conditional insert that looks the name up again.
CategoryCreateSaveRechecks(s) ==
    /\ pend[s].op = "save"
    /\ cats' = IF FindOneByName(cats, pend[s].name) # {}
               THEN cats
               ELSE Save(cats, pend[s].id, [name |-> pend[s].name])
    /\ pend' = [pend EXCEPT ![s] = Idle]
    /\ last' = Step("categorySave", pend[s].id, NoBody, <<>>,
                    <<Redirect(CategoryUrl, pend[s].id)>>, TRUE)
    /\ UNCHANGED <<items, nextId, form>>

\* POST /category/create, from category.save() on.
CategoryCreateSave(s) ==
    /\ pend[s].op = "save"
    /\ cats' = Save(cats, pend[s].id, [name |-> pend[s].name])
    /\ pend' = [pend EXCEPT ![s] = Idle]
    /\ last' = Step("categorySave", pend[s].id, NoBody, <<>>,
                    <<Redirect(CategoryUrl, pend[s].id)>>, TRUE)
    /\ UNCHANGED <<items, nextId, form>>

\* GET /category/:id/delete.  As for items, the redirect of the missing
\* case is not followed by a return.
CategoryDeleteGET(id) ==
    /\ last' = Step("categoryDeleteGET", id, NoBody, <<>>,
                    IF id \notin DOMAIN cats
                    THEN <<Redirect(CategoryListUrl, NoId),
                           Render("category_delete")>>
                    ELSE <<Render("category_delete")>>,
                    TRUE)
    /\ UNCHANGED <<items, cats, nextId, pend, form>>

\* POST /category/:id/delete, up to the await of the delete: the items are
\* looked up by the URL id; the delete that follows names the body's id.
CategoryDeletePOST(id, categoryid) ==
    /\ UNCHANGED <<items, cats, nextId, form>>
    /\ IF FindItemsByCategory(items, id) # {}
       THEN /\ pend' = pend
            /\ last' = Step("categoryDelete", id, NoBody, <<>>,
                            <<Render("category_delete")>>, TRUE)
       ELSE /\ FreeSlots # {}
            /\ pend' = [pend EXCEPT ![FreeSlot] =
                          Suspended("delete", categoryid, id, <<>>,
                              FindItemsByCategory(items, categoryid) # {})]
            /\ last' = Step("categoryDelete", id, NoBody, <<>>, <<>>, FALSE)

\* POST /category/:id/delete, from Category.findByIdAndDelete on.
CategoryDeleteCommit(s) ==
    /\ pend[s].op = "delete"
    /\ cats' = FindByIdAndDelete(cats, pend[s].id)
    /\ pend' = [pend EXCEPT ![s] = Idle]
    /\ last' = Step("categoryDeleted", pend[s].urlid, NoBody, <<>>,
                    <<Redirect(CategoryListUrl, NoId)>>, TRUE)
    /\ UNCHANGED <<items, nextId, form>>

\* POST /category/:id/update.  The handler is a bare async function: when
\* findByIdAndUpdate resolves to null, reading .url of it rejects the
\* handler's promise, which nothing in this file catches.  A router that
\* ignores the returned promise leaves the request without a response; one
\* that observes it hands the error to next.
CategoryUpdatePOST(id, body) ==
    /\ UNCHANGED <<items, nextId, pend, form>>
    /\ IF CategoryErrors(body) # <<>>
       THEN /\ cats' = cats
            /\ last' = Step("categoryUpdate", id, body, CategoryErrors(body),
                            <<Render("category_form")>>, TRUE)
       ELSE /\ cats' = FindByIdAndUpdate(cats, id, CategoryDoc(body))
            /\ IF id \in DOMAIN cats
               THEN last' = Step("categoryUpdate", id, body, <<>>,
                                 <<Redirect(CategoryUrl, id)>>, TRUE)
               ELSE \E calls \in {<<>>, <<NextErr("TypeError")>>} :
                      last' = Step("categoryUpdate", id, body, <<>>, calls, TRUE)

-----------------------------------------------------------------------------
(* The handlers' specification: requests arrive in any order and suspended *)
(* handlers resume in any order.                                           *)

NoForm == [raw |-> NoBody, body |-> NoBody, errors |-> <<>>, validated |-> FALSE]

Init ==
    /\ items = <<>>
    /\ cats = <<>>
    /\ nextId = 1
    /\ pend = [s \in 1..MaxInflight |-> Idle]
    /\ last = Step("none", NoId, NoBody, <<>>, <<>>, TRUE)
    /\ form = NoForm

Next ==
    \/ \E body \in ItemBodies : ItemCreatePOST(body)
    \/ \E id \in RequestIds : ItemDeleteGET(id)
    \/ \E itemid \in RequestIds : ItemDeletePOST(itemid)
    \/ \E id \in RequestIds, body \in ItemBodies : ItemUpdatePOST(id, body)
    \/ \E body \in CategoryBodies : CategoryCreatePOST(body)
    \/ \E s \in DOMAIN pend : CategoryCreateSave(s)
    \/ \E id \in RequestIds : CategoryDeleteGET(id)
    \/ \E id \in RequestIds, categoryid \in RequestIds :
         CategoryDeletePOST(id, categoryid)
    \/ \E s \in DOMAIN pend : CategoryDeleteCommit(s)
    \/ \E id \in RequestIds, body \in CategoryBodies : CategoryUpdatePOST(id, body)

Spec == Init /\ [][Next]_vars

-----------------------------------------------------------------------------
(* The validation specification: the item form's chain run on one form,   *)
(* drawn with every price text and every stock text of the bounds.        *)

Texts(alphabet, n) == UNION {[1..k -> alphabet] : k \in 0..n}

PriceInputs == Texts({"$", "9", ".", "x", " "}, MaxPriceLen)
StockInputs == Texts({"7", "-", "+", ".", "x", " "}, MaxStockLen)

ValidationForms ==
    { [form |-> "item", name |-> <<"W">>, description |-> <<"a", "b", "c">>,
       price |-> p, stock |-> <<"4", "2">>, category |-> Absent] :
        p \in PriceInputs }
    \cup
    { [form |-> "item", name |-> <<"W">>, description |-> <<"a", "b", "c">>,
       price |-> <<"$", "9">>, stock |-> t, category |-> Absent] :
        t \in StockInputs }

\* The chain of the item forms, as express-validator runs it: req.body is
\* left sanitized and validationResult(req) holds the errors.
ItemValidationChain ==
    /\ ~form.validated
    /\ form.raw.form = "item"
    /\ form' = [raw |-> form.raw,
                body |-> [form |-> "item",
                          name |-> Sanitize(form.raw.name),
                          description |-> Sanitize(form.raw.description),
                          price |-> Sanitize(form.raw.price),
                          stock |-> Sanitize(form.raw.stock),
                          category |-> ToArray(form.raw.category)],
                errors |-> ItemErrors(form.raw),
                validated |-> TRUE]
    /\ UNCHANGED <<items, cats, nextId, pend, last>>

InitValidation ==
    /\ items = <<>>
    /\ cats = <<>>
    /\ nextId = 1
    /\ pend = [s \in 1..MaxInflight |-> Idle]
    /\ last = Step("none", NoId, NoBody, <<>>, <<>>, TRUE)
    /\ form \in {[raw |-> b, body |-> b, errors |-> <<>>, validated |-> FALSE] :
                   b \in ValidationForms}

NextValidation == ItemValidationChain

SpecValidation == InitValidation /\ [][NextValidation]_vars

-----------------------------------------------------------------------------
(* The category create specifications: only create submits arrive, one at *)
(* a time (sequential) or overlapping.                                     *)

CreateBodies ==
    { CategoryBody(<<"T", "o", "y">>), CategoryBody(<<" ", "t", "o", "y">>),
      CategoryBody(<<"T", "O", "Y", " ">>), CategoryBody(<<"B", "o", "x">>),
      CategoryBody(<<"b", "O", "x">>), CategoryBody(<<"a", "<", "b">>),
      CategoryBody(<<"A", "<", "b">>), CategoryBody(<<"a", "b", " ">>) }

NoneSuspended == \A s \in DOMAIN pend : pend[s].op = "idle"

NextSequentialCreate ==
    \/ \E body \in CreateBodies : NoneSuspended /\ CategoryCreatePOST(body)
    \/ \E s \in DOMAIN pend : CategoryCreateSave(s)

SpecSequentialCreate == Init /\ [][NextSequentialCreate]_vars

InitOverlappingCreate ==
    /\ items = <<>>
    /\ cats = <<>>
    /\ nextId = 1
    /\ pend = [s \in 1..MaxOverlap |-> Idle]
    /\ last = Step("none", NoId, NoBody, <<>>, <<>>, TRUE)
    /\ form = NoForm

NextOverlappingCreate ==
    \/ \E body \in CreateBodies : CategoryCreatePOST(body)
    \/ \E s \in DOMAIN pend : CategoryCreateSave(s)

SpecOverlappingCreate == InitOverlappingCreate /\ [][NextOverlappingCreate]_vars

-----------------------------------------------------------------------------
(* Properties. *)

\* Two names equal when letter case is ignored.
SameIgnoringCase(a, b) ==
    /\ Len(a) = Len(b)
    /\ \A i \in 1..Len(a) : LowerChar(a[i]) = LowerChar(b[i])

\* C1: category delete submit never removes a category that a stored item
\* referenced when the request read the store, whatever the URL id and the
\* body's categoryid are.
ReferencedCategoryIsNotRemoved ==
    [][\A s \in DOMAIN pend :
         (pend[s].op = "delete" /\ pend'[s].op = "idle" /\ pend[s].referenced)
            => cats' = cats]_vars

\* C2: with create submits running one at a time, the store never holds two
\* categories whose names are equal ignoring case, and a valid submit whose
\* name equals a stored one ignoring case adds no document and redirects to
\* that stored category.
NoCaseDuplicates ==
    \A c, d \in DOMAIN cats :
        c # d => ~SameIgnoringCase(cats[c].name, cats[d].name)

DuplicateSubmitRedirects ==
    (/\ last'.op = "categoryCreate"
     /\ Len(Trim(last'.body.name)) >= 3
     /\ \E c \in DOMAIN cats :
          SameIgnoringCase(cats[c].name, Sanitize(last'.body.name)))
    => /\ cats' = cats
       /\ pend' = pend
       /\ \E c \in DOMAIN cats :
            /\ SameIgnoringCase(cats[c].name, Sanitize(last'.body.name))
            /\ last'.calls = <<Redirect(CategoryUrl, c)>>

SequentialCreateIsIdempotent ==
    []NoCaseDuplicates /\ [][DuplicateSubmitRedirects]_vars

\* A submit that differs from the stored name in letter case only was sent
\* to the stored category.
CaseVariantRedirected ==
    /\ last.op = "categoryCreate"
    /\ last.errors = <<>>
    /\ \E c \in DOMAIN cats :
         /\ last.calls = <<Redirect(CategoryUrl, c)>>
         /\ c # last.id
         /\ cats[c].name # Sanitize(last.body.name)
         /\ SameIgnoringCase(cats[c].name, Sanitize(last.body.name))

\* C3: an item or category create or update submit that fails validation
\* re-renders its form with the errors and writes nothing.
FormOf(op) ==
    IF op \in {"itemCreate", "itemUpdate"} THEN "item_form" ELSE "category_form"

InvalidSubmitWritesNothing ==
    [][(/\ last'.op \in {"itemCreate", "itemUpdate",
                         "categoryCreate", "categoryUpdate"}
        /\ IF last'.body.form = "item"
           THEN ItemErrors(last'.body) # <<>>
           ELSE CategoryErrors(last'.body) # <<>>)
       => /\ items' = items
          /\ cats' = cats
          /\ pend' = pend
          /\ last'.errors # <<>>
          /\ last'.calls = <<Render(FormOf(last'.op))>>]_vars

\* An item create submit whose name is empty after trim was refused while
\* the store held documents.
EmptyNameRefused ==
    /\ last.op = "itemCreate"
    /\ Trim(last.body.name) = <<>>
    /\ NameMsg \in {last.errors[i] : i \in 1..Len(last.errors)}
    /\ DOMAIN items # {}

\* C4: delete-confirm of a missing document answers with the redirect to the
\* list alone; the confirmation view is rendered only for a stored document.
MissingTargetOnlyRedirects ==
    /\ (last.op = "itemDeleteGET" /\ last.id \notin DOMAIN items)
         => last.calls = <<Redirect(ItemListUrl, NoId)>>
    /\ (last.op = "categoryDeleteGET" /\ last.id \notin DOMAIN cats)
         => last.calls = <<Redirect(CategoryListUrl, NoId)>>

\* C5: a valid update submit for a stored item sets its fields to the
\* sanitized values submitted (stock as the schema casts it), keeps the set
\* of item ids, changes no other item, and redirects to the item's URL.
UpdatePreservesIdentity ==
    [][(/\ last'.op = "itemUpdate"
        /\ ItemErrors(last'.body) = <<>>
        /\ last'.id \in DOMAIN items)
       => /\ DOMAIN items' = DOMAIN items
          /\ \A j \in DOMAIN items \ {last'.id} : items'[j] = items[j]
          /\ items'[last'.id] =
               [name |-> Sanitize(last'.body.name),
                description |-> Sanitize(last'.body.description),
                price |-> Sanitize(last'.body.price),
                stock |-> CastNumber(Sanitize(last'.body.stock)),
                category |-> ToArray(last'.body.category)]
          /\ nextId' = nextId
          /\ last'.calls = <<Redirect(ItemUrl, last'.id)>>]_vars

\* One of two stored items was updated to a name with an escaped character.
ItemUpdatedInPlace ==
    /\ last.op = "itemUpdate"
    /\ last.errors = <<>>
    /\ last.id \in DOMAIN items
    /\ Cardinality(DOMAIN items) = 2
    /\ items[last.id].name = <<"&", "l", "t", ";", "X">>
    /\ \E j \in DOMAIN items : items[j].name = <<"W">>

\* C6: a price whose trimmed text is not, as a whole, $ digits with an
\* optional . digits part gets the price-format error.
PriceFormatEnforced ==
    (form.validated /\ ~PricePattern(Trim(form.raw.price)))
        => \E i \in 1..Len(form.errors) : form.errors[i] = PriceFormatMsg

\* C7: a stock whose trimmed text holds a character that is no decimal digit
\* gets the stock-numeric error.
StockDigitsEnforced ==
    (form.validated /\ ~AllDigits(Trim(form.raw.stock)))
        => \E i \in 1..Len(form.errors) : form.errors[i] = StockNumericMsg

\* C8: the save of a create submit is not conditioned on the duplicate check
\* still holding: a suspended create that resumes adds its document and
\* keeps every stored category, also one whose name equals its own ignoring
\* case.
SaveDoesNotRecheck ==
    [][\A s \in DOMAIN pend :
         (pend[s].op = "save" /\ pend'[s].op = "idle")
            => /\ DOMAIN cats' = DOMAIN cats \cup {pend[s].id}
               /\ cats'[pend[s].id].name = pend[s].name
               /\ \A c \in DOMAIN cats : cats'[c] = cats[c]]_vars

\* Two overlapping creates have both been saved under names equal ignoring
\* case.
DuplicateAfterOverlap ==
    /\ last.op = "categorySave"
    /\ \E c \in DOMAIN cats :
         /\ c # last.id
         /\ last.id \in DOMAIN cats
         /\ SameIgnoringCase(cats[c].name, cats[last.id].name)

\* C9: every id in a stored item's category array is the id of a stored
\* category.
NoDanglingCategoryReference ==
    \A i \in DOMAIN items : \A k \in 1..Len(items[i].category) :
        items[i].category[k] \in DOMAIN cats

\* C10: an item or category update submit that passes validation and has
\* run to its end made exactly one response call: the redirect to the URL of
\* the id in its path, or the error handed to the fault handler.
ValidUpdateGetsOneResponse ==
    /\ (last.op = "itemUpdate" /\ last.errors = <<>> /\ last.settled)
         => last.calls \in {<<Redirect(ItemUrl, last.id)>>,
                            <<NextErr("TypeError")>>}
    /\ (last.op = "categoryUpdate" /\ last.errors = <<>> /\ last.settled)
         => last.calls \in {<<Redirect(CategoryUrl, last.id)>>,
                            <<NextErr("TypeError")>>}

=============================================================================
